---- MODULE Spec2Model ----
(***************************************************************************)
(* const-fnv1a-hash (src/src/lib.rs): FNV-1a at 64, 32 and 16 (XOR-folded) *)
(* bits over a byte slice, with an optional length limit and an optional   *)
(* ASCII case fold.                                                        *)
(*                                                                         *)
(* A u32 / u64 does not fit TLC's integers, so an unsigned word is a       *)
(* sequence of 16-bit limbs, least significant limb first: a u32 has two   *)
(* limbs, a u64 four.  wrapping_mul keeps exactly that many limbs, which   *)
(* is arithmetic modulo 2^32 / 2^64.                                       *)
(***************************************************************************)
EXTENDS Integers, Sequences, FiniteSets, TLC

VARIABLES bytes, limit, case, endian, fn, pc, i, len, hash, result

vars == <<bytes, limit, case, endian, fn, pc, i, len, hash, result>>

----------------------------------------------------------------------------
(* Bounds of the model *)

\* longest enumerated input slice
MaxLen == 2

\* byte values the enumerated slices are built from:
\* 'A' 'a' 'B' (letters), '1' (non-letter, bit 5 set), '[' (non-letter, bit 5
\* clear), 0xC9 (non-ASCII, bit 5 clear)
Alphabet == {65, 97, 66, 49, 91, 201}

\* longer inputs hashed besides the enumerated ones:
\* "bFbiXFCAdaAa" and the non-ASCII pair 0xE9 0xC9
KnownVectors ==
    { <<98, 70, 98, 105, 88, 70, 67, 65, 100, 97, 65, 97>>, <<233, 201>> }

RECURSIVE SeqsUpTo(_)
SeqsUpTo(n) ==
    IF n = 0 THEN { <<>> }
    ELSE LET shorter == SeqsUpTo(n - 1)
         IN  shorter \cup { Append(s, b) : s \in { t \in shorter : Len(t) = n - 1 },
                                            b \in Alphabet }

Inputs == SeqsUpTo(MaxLen) \cup KnownVectors

\* Option<usize>: None is the empty tuple, Some(v) the one-element tuple
None == <<>>
Some(v) == <<v>>
Limits == {None} \cup { Some(v) : v \in 0..(MaxLen + 1) }

Endians == {"little", "big"}

----------------------------------------------------------------------------
(* Machine arithmetic *)

Limb == 2^16

RECURSIVE BitXor(_, _)
BitXor(a, b) ==
    IF a = 0 THEN b
    ELSE IF b = 0 THEN a
    ELSE (((a % 2) + (b % 2)) % 2) + 2 * BitXor(a \div 2, b \div 2)

RECURSIVE BitAnd(_, _)
BitAnd(a, b) ==
    IF a = 0 \/ b = 0 THEN 0
    ELSE ((a % 2) * (b % 2)) + 2 * BitAnd(a \div 2, b \div 2)

\* hash ^= value as uN : the byte is zero-extended, so only limb 1 changes
XorValue(h, value) == [h EXCEPT ![1] = BitXor(h[1], value)]

RECURSIVE Column(_, _, _, _)
Column(a, p, k, j) ==
    IF j > k THEN 0 ELSE a[j] * p[k - j + 1] + Column(a, p, k, j + 1)

RECURSIVE Running(_, _, _)
Running(a, p, k) ==
    IF k = 0 THEN 0 ELSE Column(a, p, k, 1) + (Running(a, p, k - 1) \div Limb)

\* uN::wrapping_mul : the low Len(a) limbs of the product
wrapping_mul_drops_carry(a, p) == [k \in 1..Len(a) |-> (Column(a, p, k, 1)) % Limb]

wrapping_mul(a, p) == [k \in 1..Len(a) |-> (Running(a, p, k)) % Limb]

----------------------------------------------------------------------------
(* Constants of lib.rs *)

\* 0x811c9dc5
FNV_OFFSET_BASIS_32 == <<40389, 33052>>
\* 0xcbf29ce484222325
FNV_OFFSET_BASIS_64 == <<8997, 33826, 40164, 52210>>
\* 0x01000193
FNV_PRIME_32 == <<403, 256>>
\* 0x00000100000001B3
FNV_PRIME_64 == <<435, 0, 256, 0>>
\* 0b0010_0000
ASCII_CASE_MASK == 32

----------------------------------------------------------------------------
(* fnv1a_hash_64 / fnv1a_hash_32 *)

\* let len = match limit { ... }
EffectiveLen_accepts_zero(b, l) ==
    IF l = None THEN Len(b)
    ELSE IF l[1] <= Len(b) THEN l[1] ELSE Len(b)

EffectiveLen_unclamped(b, l) ==
    IF l = None THEN Len(b)
    ELSE IF l[1] > 0 THEN l[1] ELSE Len(b)

EffectiveLen(b, l) ==
    IF l = None THEN Len(b)
    ELSE IF l[1] <= Len(b) /\ l[1] > 0 THEN l[1] ELSE Len(b)

\* let value = if case && (bytes[i] & MASK == MASK) { bytes[i] ^ MASK } else { bytes[i] }
Value_never_folds(b, c) == b

Value_folds_to_lowercase(b, c) ==
    IF c /\ (BitAnd(b, ASCII_CASE_MASK) = 0)
    THEN BitXor(b, ASCII_CASE_MASK)
    ELSE b

Value_wrong_bit(b, c) ==
    IF c /\ (BitAnd(b, 2 * ASCII_CASE_MASK) = 2 * ASCII_CASE_MASK)
    THEN BitXor(b, 2 * ASCII_CASE_MASK)
    ELSE b

Value(b, c) ==
    IF c /\ (BitAnd(b, ASCII_CASE_MASK) = ASCII_CASE_MASK)
    THEN BitXor(b, ASCII_CASE_MASK)
    ELSE b

\* one pass of the while body: hash ^= value; hash = hash.wrapping_mul(PRIME)
Body64(h, b, c) == wrapping_mul(XorValue(h, Value(b, c)), FNV_PRIME_64)

Body32(h, b, c) == wrapping_mul(XorValue(h, Value(b, c)), FNV_PRIME_32)

\* while i < len { ... i += 1 } hash
RECURSIVE While64(_, _, _, _, _)
While64(b, n, c, k, h) ==
    IF k < n THEN While64(b, n, c, k + 1, Body64(h, b[k + 1], c)) ELSE h

RECURSIVE While32(_, _, _, _, _)
While32(b, n, c, k, h) ==
    IF k < n THEN While32(b, n, c, k + 1, Body32(h, b[k + 1], c)) ELSE h

fnv1a_hash_64(b, l, c) == While64(b, EffectiveLen(b, l), c, 0, FNV_OFFSET_BASIS_64)

fnv1a_hash_32(b, l, c) == While32(b, EffectiveLen(b, l), c, 0, FNV_OFFSET_BASIS_32)

----------------------------------------------------------------------------
(* fnv1a_hash_16_xor *)

\* u32::to_ne_bytes : the four bytes in the target's byte order
to_ne_bytes(h, e) ==
    LET le == <<(h[1] % 256), (h[1] \div 256), (h[2] % 256), (h[2] \div 256)>>
    IN  IF e = "little" THEN le ELSE <<le[4], le[3], le[2], le[1]>>

\* u16::from_ne_bytes
from_ne_bytes_always_little(p, e) == p[1] + 256 * p[2]

from_ne_bytes(p, e) ==
    IF e = "little" THEN p[1] + 256 * p[2] ELSE 256 * p[1] + p[2]

\* lines 79-82, given the 32-bit hash
XorFold(h, e) ==
    LET bs    == to_ne_bytes(h, e)
        upper == from_ne_bytes(<<bs[1], bs[2]>>, e)
        lower == from_ne_bytes(<<bs[3], bs[4]>>, e)
    IN  <<BitXor(upper, lower)>>

fnv1a_hash_16_xor(b, l, e) == XorFold(fnv1a_hash_32(b, l, FALSE), e)

----------------------------------------------------------------------------
(* The calls as a state machine: one call per behaviour, one step per loop *)
(* pass.  i counts from 0 as in the source; bytes[i] there is bytes[i + 1] *)
(* here.  An index past the slice is Rust's bounds-check panic.            *)

Init ==
    /\ bytes \in Inputs
    /\ limit \in Limits
    /\ case \in BOOLEAN
    /\ endian = "unobserved"
    /\ fn = "none"
    /\ pc = "idle"
    /\ i = 0
    /\ len = 0
    /\ hash = <<>>
    /\ result = <<>>

Call_fnv1a_hash_64 ==
    /\ pc = "idle"
    /\ fn' = "fnv1a_hash_64"
    /\ hash' = FNV_OFFSET_BASIS_64
    /\ i' = 0
    /\ len' = EffectiveLen(bytes, limit)
    /\ pc' = "while"
    /\ UNCHANGED <<bytes, limit, case, endian, result>>

Call_fnv1a_hash_32 ==
    /\ pc = "idle"
    /\ fn' = "fnv1a_hash_32"
    /\ hash' = FNV_OFFSET_BASIS_32
    /\ i' = 0
    /\ len' = EffectiveLen(bytes, limit)
    /\ pc' = "while"
    /\ UNCHANGED <<bytes, limit, case, endian, result>>

\* line 79: fnv1a_hash_32(bytes, limit, false).  Only this function observes
\* the target's byte order, so the target is chosen as it is entered.
Call_fnv1a_hash_16_xor ==
    /\ pc = "idle"
    /\ fn' = "fnv1a_hash_16_xor"
    /\ endian' \in Endians
    /\ case' = FALSE
    /\ hash' = FNV_OFFSET_BASIS_32
    /\ i' = 0
    /\ len' = EffectiveLen(bytes, limit)
    /\ pc' = "while"
    /\ UNCHANGED <<bytes, limit, result>>

WhileBody ==
    /\ pc = "while"
    /\ i < len
    /\ IF i < Len(bytes)
       THEN /\ hash' = IF fn = "fnv1a_hash_64"
                       THEN Body64(hash, bytes[i + 1], case)
                       ELSE Body32(hash, bytes[i + 1], case)
            /\ i' = i + 1
            /\ pc' = "while"
       ELSE /\ pc' = "panic"
            /\ UNCHANGED <<hash, i>>
    /\ UNCHANGED <<bytes, limit, case, endian, fn, len, result>>

Return ==
    /\ pc = "while"
    /\ ~(i < len)
    /\ IF fn = "fnv1a_hash_16_xor"
       THEN /\ pc' = "xor"
            /\ UNCHANGED result
       ELSE /\ pc' = "done"
            /\ result' = hash
    /\ UNCHANGED <<bytes, limit, case, endian, fn, i, len, hash>>

Xor16 ==
    /\ pc = "xor"
    /\ result' = XorFold(hash, endian)
    /\ pc' = "done"
    /\ UNCHANGED <<bytes, limit, case, endian, fn, i, len, hash>>

Next ==
    \/ Call_fnv1a_hash_64
    \/ Call_fnv1a_hash_32
    \/ Call_fnv1a_hash_16_xor
    \/ WhileBody
    \/ Return
    \/ Xor16

Spec == Init /\ [][Next]_vars

FairSpec == Spec /\ WF_vars(Next)

----------------------------------------------------------------------------
(* Vocabulary of the properties *)

Take(b, n) == SubSeq(b, 1, n)

Returned(f) == pc = "done" /\ fn = f

\* the core functions return here with their `case` argument still in `case`
CoreReturned == Returned("fnv1a_hash_64") \/ Returned("fnv1a_hash_32")

\* the function that returned, as an operator of its arguments
Hash(b, l, c) ==
    IF fn = "fnv1a_hash_64" THEN fnv1a_hash_64(b, l, c) ELSE fnv1a_hash_32(b, l, c)

\* effective length as the specification words it
StatedLen(b, l) ==
    IF l # None /\ 0 < l[1] /\ l[1] <= Len(b) THEN l[1] ELSE Len(b)

CaseBitSet(x) == (x \div 32) % 2 = 1

IsUpper(x) == x \in 65..90
IsLower(x) == x \in 97..122
IsLetter(x) == IsUpper(x) \/ IsLower(x)
AllLetters(b) == \A k \in 1..Len(b) : IsLetter(b[k])
NoLetter(b) == \A k \in 1..Len(b) : ~IsLetter(b[k])

to_ascii_lowercase(b) == [k \in 1..Len(b) |-> IF IsUpper(b[k]) THEN b[k] + 32 ELSE b[k]]
to_ascii_uppercase(b) == [k \in 1..Len(b) |-> IF IsLower(b[k]) THEN b[k] - 32 ELSE b[k]]

\* positions whose byte the fold changes
Flipped(b) == { k \in 1..Len(b) : CaseBitSet(b[k]) }

(* Reference FNV-1a, computed apart from the model of the code: a word is  *)
(* a sequence of base-256 digits, least significant first, and the prime   *)
(* 2^(8*shift) + low is applied as  x * low + (x << 8*shift).              *)

RefXorBits(a, b, n) ==
    LET bit(k) == (((a \div (2^k)) % 2) + ((b \div (2^k)) % 2)) % 2
        RECURSIVE sum(_)
        sum(k) == IF k = n THEN 0 ELSE bit(k) * (2^k) + sum(k + 1)
    IN  sum(0)

RefBasis32 == <<197, 157, 28, 129>>
RefBasis64 == <<37, 35, 34, 132, 228, 156, 242, 203>>

RECURSIVE RefRunning(_, _, _, _)
RefRunning(x, low, shift, k) ==
    IF k = 0 THEN 0
    ELSE x[k] * low + (IF k > shift THEN x[k - shift] ELSE 0)
         + (RefRunning(x, low, shift, k - 1) \div 256)

RefMul(x, low, shift) == [k \in 1..Len(x) |-> (RefRunning(x, low, shift, k)) % 256]

RefByte(x, flag) == IF flag /\ CaseBitSet(x) THEN x - 32 ELSE x

RECURSIVE RefFold(_, _, _, _, _)
RefFold(b, flag, basis, low, shift) ==
    IF b = <<>> THEN basis
    ELSE LET acc  == RefFold(Take(b, Len(b) - 1), flag, basis, low, shift)
             byte == RefByte(b[Len(b)], flag)
         IN  RefMul([acc EXCEPT ![1] = RefXorBits(acc[1], byte, 8)], low, shift)

ToLimbs(d) == [k \in 1..(Len(d) \div 2) |-> d[2 * k - 1] + 256 * d[2 * k]]

Ref64(b, l, flag) == ToLimbs(RefFold(Take(b, StatedLen(b, l)), flag, RefBasis64, 435, 5))
Ref32(b, l, flag) == ToLimbs(RefFold(Take(b, StatedLen(b, l)), flag, RefBasis32, 403, 3))

----------------------------------------------------------------------------
(* The step machine returns what the functions-as-operators return *)
StepsAgree ==
    /\ Returned("fnv1a_hash_64") => result = fnv1a_hash_64(bytes, limit, case)
    /\ Returned("fnv1a_hash_32") => result = fnv1a_hash_32(bytes, limit, case)
    /\ Returned("fnv1a_hash_16_xor") => result = fnv1a_hash_16_xor(bytes, limit, endian)

----------------------------------------------------------------------------
(* C1: fnv1a_hash_32 / fnv1a_hash_64 return exactly the reference FNV-1a   *)
(* fold of the first effective-length bytes (fold the byte's case bit away *)
(* when the flag is on, XOR it in, multiply by the prime modulo 2^32 /     *)
(* 2^64); the empty input returns the offset basis.                        *)
C1_ReferenceFold ==
    /\ Returned("fnv1a_hash_64") => result = Ref64(bytes, limit, case)
    /\ Returned("fnv1a_hash_32") => result = Ref32(bytes, limit, case)
    /\ (CoreReturned /\ bytes = <<>>) =>
           result = IF fn = "fnv1a_hash_64" THEN <<8997, 33826, 40164, 52210>>
                                            ELSE <<40389, 33052>>

\* the published vector FNV-1a-32("a") = 0xe40c292c has been returned
C1_Witness ==
    /\ Returned("fnv1a_hash_32")
    /\ bytes = <<97>> /\ limit = None /\ ~case
    /\ result = <<10540, 58380>>

(* C2: with limit Some(v) the hash is the unlimited hash of the first e    *)
(* bytes, e = v if 0 < v <= len(b) and len(b) otherwise.                   *)
C2_LimitIsPrefix ==
    (CoreReturned /\ limit # None) =>
        result = Hash(Take(bytes, StatedLen(bytes, limit)), None, case)

\* a limit strictly inside a two-byte slice has truncated it
C2_Witness ==
    /\ CoreReturned
    /\ bytes = <<97, 66>> /\ limit = Some(1)
    /\ result = Hash(<<97>>, None, case)
    /\ result # Hash(bytes, None, case)

(* C3: with the flag on, a sequence of ASCII letters hashes like its       *)
(* to_ascii_lowercase form hashed with the flag on.                        *)
C3_CaseInsensitive ==
    (CoreReturned /\ limit = None /\ case /\ AllLetters(bytes)) =>
        result = Hash(to_ascii_lowercase(bytes), None, TRUE)

\* [a, B] has been hashed with the flag on, and [A, B], [a, b] hash alike
C3_Witness ==
    /\ CoreReturned /\ limit = None /\ case
    /\ bytes = <<97, 66>>
    /\ result = Hash(<<65, 66>>, None, TRUE)
    /\ result = Hash(<<97, 98>>, None, TRUE)

(* C4 as stated: whenever the input holds a letter whose case bit the fold *)
(* flips, the hash with the flag on differs from the hash with it off.     *)
C4_AnyFlipDiffers ==
    (CoreReturned /\ limit = None /\ case
        /\ \E k \in 1..Len(bytes) : IsLetter(bytes[k]) /\ CaseBitSet(bytes[k])) =>
        result # Hash(bytes, None, FALSE)

(* C4 amended: when the fold changes exactly one byte of the input, a      *)
(* letter (as in [a, B]), the hash with the flag on differs from the hash  *)
(* with it off.                                                            *)
C4_SingleFlipDiffers ==
    (CoreReturned /\ limit = None /\ case
        /\ Cardinality(Flipped(bytes)) = 1
        /\ \A k \in Flipped(bytes) : IsLetter(bytes[k])) =>
        result # Hash(bytes, None, FALSE)

\* [a, B] has been hashed with the flag on
C4_Witness ==
    /\ CoreReturned /\ limit = None /\ case
    /\ bytes = <<97, 66>>
    /\ result # Hash(bytes, None, FALSE)

(* C5 as stated: an input without ASCII letters hashes the same with the   *)
(* flag on as with it off.                                                 *)
C5_NonLettersUntouched ==
    (CoreReturned /\ case /\ NoLetter(bytes)) =>
        result = Hash(bytes, limit, FALSE)

(* C5 amended: an input without ASCII letters and without any other byte   *)
(* that has bit 0b0010_0000 set hashes the same with the flag on as with   *)
(* it off.                                                                 *)
C5_NonLettersWithoutCaseBit ==
    (CoreReturned /\ case /\ NoLetter(bytes) /\ Flipped(bytes) = {}) =>
        result = Hash(bytes, limit, FALSE)

\* '[' 0xC9 has been hashed with the flag on
C5_Witness ==
    /\ CoreReturned /\ case
    /\ bytes = <<91, 201>>
    /\ result = Hash(bytes, limit, FALSE)

(* C6 as stated: with the flag on, a sequence of ASCII letters hashes like *)
(* its lowercase form hashed with the flag off.                            *)
C6_FoldsToLowercase ==
    (CoreReturned /\ limit = None /\ case /\ AllLetters(bytes)) =>
        result = Hash(to_ascii_lowercase(bytes), None, FALSE)

(* C6 amended: with the flag on, a sequence of ASCII letters hashes like   *)
(* its uppercase form hashed with the flag off.                            *)
C6_FoldsToUppercase ==
    (CoreReturned /\ limit = None /\ case /\ AllLetters(bytes)) =>
        result = Hash(to_ascii_uppercase(bytes), None, FALSE)

\* [a, B] has been hashed with the flag on and differs from plain [a, b]
C6_Witness ==
    /\ CoreReturned /\ limit = None /\ case
    /\ bytes = <<97, 66>>
    /\ result = Hash(<<65, 66>>, None, FALSE)
    /\ result # Hash(<<97, 98>>, None, FALSE)

(* C7: when every byte of the hashed prefix has bit 0b0010_0000 clear, the *)
(* flag has no effect on the hash.                                         *)
C7_FlagIdleWithoutCaseBit ==
    (CoreReturned /\ case
        /\ \A k \in 1..StatedLen(bytes, limit) : ~CaseBitSet(bytes[k])) =>
        result = Hash(bytes, limit, FALSE)

\* [A, a] limited to its first byte has been hashed with the flag on
C7_Witness ==
    /\ CoreReturned /\ case
    /\ bytes = <<65, 97>> /\ limit = Some(1)
    /\ result = Hash(bytes, limit, FALSE)

(* C8: fnv1a_hash_16_xor(b, limit) is (h >> 16) XOR (h mod 2^16) for       *)
(* h = fnv1a_hash_32(b, limit, false).                                     *)
C8_XorOfHalves ==
    Returned("fnv1a_hash_16_xor") =>
        LET h == fnv1a_hash_32(bytes, limit, FALSE)
        IN  result = <<RefXorBits(h[2], h[1], 16)>>

\* [a, B] has been folded to 16 bits on a big-endian target:
\* 0x6d25 XOR 0x382a = 21775
C8_Witness ==
    /\ Returned("fnv1a_hash_16_xor")
    /\ endian = "big"
    /\ bytes = <<97, 66>> /\ limit = None
    /\ result = <<21775>>

\* no bounds-check panic; the pass counter stays within the slice; a call that
\* has left the loop made exactly effective-length passes
C9_InBounds ==
    /\ pc # "panic"
    /\ pc = "while" => (i <= len /\ len <= Len(bytes))
    /\ pc \in {"xor", "done"} => i = StatedLen(bytes, limit)

(* C9: the core functions are total: the loop only reads indices below     *)
(* len(bytes), makes exactly effective-length passes, and every call       *)
(* returns.                                                                *)
C9_Total == []C9_InBounds /\ <>(pc = "done")

\* a call whose limit exceeds the slice length has returned
C9_Witness ==
    /\ CoreReturned
    /\ Len(bytes) = 2 /\ limit = Some(3)
    /\ i = 2

OtherOrder(e) == IF e = "little" THEN "big" ELSE "little"

(* C10 as stated: some input and limit give different 16-bit results under *)
(* a little-endian and under a big-endian split of the 32-bit hash: seen   *)
(* from the target a call has run on, some input would come out different  *)
(* on the other target.                                                    *)
C10_ByteOrderObservable ==
    Returned("fnv1a_hash_16_xor") =>
        \E b \in Inputs, l \in Limits :
            fnv1a_hash_16_xor(b, l, endian) # fnv1a_hash_16_xor(b, l, OtherOrder(endian))

(* C10 amended: for every input and limit the 16-bit result is the same    *)
(* under a little-endian and under a big-endian split of the 32-bit hash.  *)
C10_ByteOrderHidden ==
    Returned("fnv1a_hash_16_xor") =>
        result = fnv1a_hash_16_xor(bytes, limit, OtherOrder(endian))

\* [a, B] has been folded on a big-endian target, halves unequal
C10_Witness ==
    /\ Returned("fnv1a_hash_16_xor")
    /\ endian = "big"
    /\ bytes = <<97, 66>>
    /\ to_ne_bytes(hash, "big") # to_ne_bytes(hash, "little")

----------------------------------------------------------------------------
TypeOK ==
    /\ pc \in {"idle", "while", "xor", "done", "panic"}
    /\ i \in 0..12
    /\ \A k \in 1..Len(hash) : hash[k] \in 0..(Limb - 1)
    /\ \A k \in 1..Len(result) : result[k] \in 0..(Limb - 1)

====
